---- MODULE Spec2Model ----
(***************************************************************************)
(* The capacity-ledger engine of the generation dashboard: the Rated       *)
(* Capacity component in its two versions.                                 *)
(*   variant "A"  src/src/RatedCapacity.tsx   (loadLS/saveLS, current-     *)
(*                capacity CSV fetch, PLF clamped on entry)                *)
(*   variant "B"  src/unnamed/part_000        (state initialisers reading  *)
(*                storage, unguarded save effects, historical ledger,      *)
(*                start/end range guard)                                   *)
(* Both versions read and write the same two localStorage keys.            *)
(*                                                                         *)
(* Representation.  A JS string is a sequence of one-character strings.    *)
(* A JS value is a record [t, n, s]: t is the kind ("num", "nan", "null",  *)
(* "undef", "str"), n the number in millionths (so that x/100 and the      *)
(* product of two 2-decimal numbers are exact), s the characters of a      *)
(* string.  Doubles are modelled by these exact decimals; Infinity is not  *)
(* modelled (NaN stands for every non-finite number).                      *)
(***************************************************************************)
EXTENDS Integers, Sequences, FiniteSets, TLC

\* ------------------------------------------------------------- bounds
\* mounts of the component in one run
MaxSessions == 2

\* ------------------------------------------------- program constants
SOURCES ==
  <<"Coal", "Oil & Gas", "Nuclear", "Hydro", "Solar", "Wind", "Small-Hydro", "Bio Power">>

SourceSet == {SOURCES[i] : i \in 1..Len(SOURCES)}

LS_INSTALLED == "ratedCapacity_installed"

LS_PLF == "ratedCapacity_plf"

\* the characters of each source name, as a CSV header cell spells it
NameChars(k) ==
  CASE k = "Coal" -> <<"C", "o", "a", "l">>
    [] k = "Oil & Gas" -> <<"O", "i", "l", " ", "&", " ", "G", "a", "s">>
    [] k = "Nuclear" -> <<"N", "u", "c", "l", "e", "a", "r">>
    [] k = "Hydro" -> <<"H", "y", "d", "r", "o">>
    [] k = "Solar" -> <<"S", "o", "l", "a", "r">>
    [] k = "Wind" -> <<"W", "i", "n", "d">>
    [] k = "Small-Hydro" -> <<"S", "m", "a", "l", "l", "-", "H", "y", "d", "r", "o">>
    [] k = "Bio Power" -> <<"B", "i", "o", " ", "P", "o", "w", "e", "r">>

\* ---------------------------------------------------------- JS values
Micro == 100 * 100 * 100

Num(n) == [t |-> "num", n |-> n, s |-> <<>>]

NaN == [t |-> "nan", n |-> 0, s |-> <<>>]

Null == [t |-> "null", n |-> 0, s |-> <<>>]

Undefined == [t |-> "undef", n |-> 0, s |-> <<>>]

Str(cs) == [t |-> "str", n |-> 0, s |-> cs]

Zero == Num(0)

\* ------------------------------------------------------------ strings
Digits == <<"0", "1", "2", "3", "4", "5", "6", "7", "8", "9">>

DigitSet == {Digits[i] : i \in 1..Len(Digits)}

DigitVal(c) == (CHOOSE i \in 1..Len(Digits) : Digits[i] = c) - 1

AllDigits(cs) == \A i \in 1..Len(cs) : cs[i] \in DigitSet

RECURSIVE DigitsVal(_)
DigitsVal(cs) ==
  IF cs = <<>> THEN 0
  ELSE DigitsVal(SubSeq(cs, 1, Len(cs) - 1)) * 10 + DigitVal(cs[Len(cs)])

RECURSIVE Pow10(_)
Pow10(k) == IF k = 0 THEN 1 ELSE 10 * Pow10(k - 1)

\* String.prototype.trim (the white space of the inputs is the blank)
RECURSIVE Trim(_)
Trim(cs) ==
  IF cs = <<>> THEN cs
  ELSE IF Head(cs) = " " THEN Trim(Tail(cs))
  ELSE IF cs[Len(cs)] = " " THEN Trim(SubSeq(cs, 1, Len(cs) - 1))
  ELSE cs

\* String.prototype.split(sep) for a one-character separator
RECURSIVE SplitFrom(_, _, _)
SplitFrom(cs, sep, cur) ==
  IF cs = <<>> THEN <<cur>>
  ELSE IF Head(cs) = sep THEN <<cur>> \o SplitFrom(Tail(cs), sep, <<>>)
  ELSE SplitFrom(Tail(cs), sep, Append(cur, Head(cs)))

Split(cs, sep) == SplitFrom(cs, sep, <<>>)

UpperLetters ==
  <<"A", "B", "C", "D", "E", "F", "G", "H", "I", "J", "K", "L", "M",
    "N", "O", "P", "Q", "R", "S", "T", "U", "V", "W", "X", "Y", "Z">>

LowerLetters ==
  <<"a", "b", "c", "d", "e", "f", "g", "h", "i", "j", "k", "l", "m",
    "n", "o", "p", "q", "r", "s", "t", "u", "v", "w", "x", "y", "z">>

\* String.prototype.toLowerCase
ToLowerCase(cs) ==
  [i \in 1..Len(cs) |->
    IF \E j \in 1..Len(UpperLetters) : UpperLetters[j] = cs[i]
    THEN LowerLetters[CHOOSE j \in 1..Len(UpperLetters) : UpperLetters[j] = cs[i]]
    ELSE cs[i]]

\* Number(string): white space is trimmed, the empty string is 0, a decimal
\* literal (optional sign, digits, optional fraction of up to 6 digits) is its
\* value, anything else is NaN.  Exponents, hex and "Infinity" are not among
\* the inputs of the model.
StringToNumber(cs) ==
  LET t == Trim(cs)
      neg == t # <<>> /\ Head(t) = "-"
      body == IF neg THEN Tail(t) ELSE t
      parts == Split(body, ".")
      sign == IF neg THEN -1 ELSE 1
  IN IF t = <<>> THEN Zero
     ELSE IF Len(parts) = 1 /\ parts[1] # <<>> /\ AllDigits(parts[1])
     THEN Num(sign * DigitsVal(parts[1]) * Micro)
     ELSE IF /\ Len(parts) = 2
             /\ parts[1] # <<>> /\ AllDigits(parts[1])
             /\ Len(parts[2]) \in 1..6 /\ AllDigits(parts[2])
     THEN Num(sign * (DigitsVal(parts[1]) * Micro
                      + DigitsVal(parts[2]) * Pow10(6 - Len(parts[2]))))
     ELSE NaN

\* Number(v)
ToNumber(v) ==
  CASE v.t = "num" -> v
    [] v.t = "nan" -> NaN
    [] v.t = "null" -> Zero
    [] v.t = "undef" -> NaN
    [] v.t = "str" -> StringToNumber(v.s)

\* x * y / 10^6 on millionths, split in thousands to stay within TLC's integers
MulMicro(x, y) ==
  LET a == x \div 1000
      b == x % 1000
      c == y \div 1000
      d == y % 1000
  IN a * c + ((a * d + b * c + ((b * d) \div 1000)) \div 1000)

\* a * b, a - b and a + b on JS values (operands are converted by Number)
JsMul(a, b) ==
  LET x == ToNumber(a)
      y == ToNumber(b)
  IN IF x.t = "num" /\ y.t = "num" THEN Num(MulMicro(x.n, y.n)) ELSE NaN

JsSub(a, b) ==
  LET x == ToNumber(a)
      y == ToNumber(b)
  IN IF x.t = "num" /\ y.t = "num" THEN Num(x.n - y.n) ELSE NaN

JsAdd(a, b) ==
  LET x == ToNumber(a)
      y == ToNumber(b)
  IN IF x.t = "num" /\ y.t = "num" THEN Num(x.n + y.n) ELSE NaN

\* v / 100
JsDiv100(v) ==
  LET x == ToNumber(v) IN IF x.t = "num" THEN Num(x.n \div 100) ELSE NaN

\* --------------------------------------------------------- utilities
\* variant A: Number(v.trim()) for a string, Number(v) otherwise; 0 unless finite
safeNum(v) ==
  LET n == IF v.t = "str" THEN StringToNumber(Trim(v.s)) ELSE ToNumber(v)
  IN IF n.t = "num" THEN n ELSE Zero

\* variant B: Number.isFinite(Number(x)) ? Number(x) : 0
safeNumB(x) == IF ToNumber(x).t = "num" THEN ToNumber(x) ELSE Zero

\* a rounding that truncates toward minus infinity instead of rounding half-up
round2_Floor(v) ==
  LET x == ToNumber(v)
  IN IF x.t = "num" THEN Num((x.n \div 10000) * 10000) ELSE NaN

\* Math.round(n * 100) / 100; Math.round is floor(x + 0.5)
round2(v) ==
  LET x == ToNumber(v)
  IN IF x.t = "num" THEN Num(((x.n + 5000) \div 10000) * 10000) ELSE NaN

\* ------------------------------------------------------------ records
ZeroRecord == [k \in SourceSet |-> Zero]

EmptyObj == [k \in {} |-> Zero]

\* --------------------------------------------------- JSON and storage
\* A stored item: t = "none" (getItem returns null), "bad" (text JSON.parse
\* rejects), "scalar" (valid JSON that is no object), "obj" (a JSON object, v
\* its members; the members of the model's objects are source names).
NoItem == [t |-> "none", v |-> EmptyObj]

BadItem == [t |-> "bad", v |-> EmptyObj]

ScalarItem == [t |-> "scalar", v |-> EmptyObj]

ObjItem(f) == [t |-> "obj", v |-> f]

\* JSON.stringify of a record: NaN is written as null, an undefined member is
\* left out, every other value is written as it is
JSONstringify(obj) ==
  ObjItem([k \in {j \in DOMAIN obj : obj[j].t # "undef"} |->
            IF obj[k].t = "nan" THEN Null ELSE obj[k]])

VARIABLES
  variant,        \* "A" or "B": the version of the component this session runs
  mounted,        \* whether a component instance is live
  installed,      \* state: Installed Capacity record
  plf,            \* state: PLF record
  rated,          \* useMemo cache of the derived Rated Capacity record
  csvLoaded,      \* state (A): FALSE shows "Capacity.csv not loaded"
  capFetch,       \* (A) the current-capacity fetch: st none/pending/done, resp
  history,        \* state (B): the ledger, a sequence of [month, values]
  err,            \* state (B): the ledger's "not loaded" advisory, or NoErr
  histFetch,      \* (B) the historical fetch: st none/pending/done, resp
  start,          \* state (B): selected start month (a JS value)
  end,            \* state (B): selected end month (a JS value)
  escaped,        \* the sites that let an exception escape a handler
  localStorage,   \* key -> stored item
  quotaExceeded,  \* environment: localStorage.setItem throws
  sessions,       \* mounts so far
  mKey,           \* month arithmetic: the key handed to minusMonths
  mN,             \* month arithmetic: the number of months to subtract
  mOut            \* month arithmetic: the key returned (undefined before the call)

vars ==
  <<variant, mounted, installed, plf, rated, csvLoaded, capFetch, history, err,
    histFetch, start, end, escaped, localStorage, quotaExceeded, sessions,
    mKey, mN, mOut>>

\* variant A: loadLS.  isNull is the null return; out holds the members found.
loadLS(key) ==
  LET raw == localStorage[key]
  IN IF raw.t # "obj"
     THEN [isNull |-> TRUE, out |-> EmptyObj]
     ELSE [isNull |-> FALSE,
           out |-> [k \in (DOMAIN raw.v) \cap SourceSet |-> safeNum(raw.v[k])]]

\* a write that keeps the first value stored under a key
saveLS_FirstWins(store, key, obj) ==
  IF quotaExceeded \/ store[key].t = "obj"
  THEN store
  ELSE [store EXCEPT ![key] = JSONstringify(obj)]

\* variant A: saveLS on the store `store`; a throwing setItem is caught
saveLS(store, key, obj) ==
  IF quotaExceeded THEN store ELSE [store EXCEPT ![key] = JSONstringify(obj)]

\* variant B: the save effects call localStorage.setItem with no try
setItemB(store, key, obj) ==
  IF quotaExceeded THEN store ELSE [store EXCEPT ![key] = JSONstringify(obj)]

\* a restore that keeps only the whole part of each stored number
RestoreRecord_Whole(prev, loaded) ==
  [k \in SourceSet |->
    IF k \in DOMAIN loaded.out
    THEN Num((safeNum(loaded.out[k]).n \div Micro) * Micro)
    ELSE prev[k]]

\* variant A: the updaters of the mount effect, `loaded` a non-null loadLS result
RestoreRecord(prev, loaded) ==
  [k \in SourceSet |->
    IF k \in DOMAIN loaded.out THEN safeNum(loaded.out[k]) ELSE prev[k]]

\* variant B: the useState initialisers, Object.assign(base, JSON.parse(raw))
InitRecordB(key) ==
  LET raw == localStorage[key]
  IN IF raw.t = "obj"
     THEN [k \in SourceSet |-> IF k \in DOMAIN raw.v THEN raw.v[k] ELSE Zero]
     ELSE ZeroRecord

\* variant A: ratedBySource
ratedBySource(inst, p) ==
  [k \in SourceSet |-> round2(JsMul(safeNum(inst[k]), JsDiv100(safeNum(p[k]))))]

\* variant B: rated
ratedOf(inst, p) ==
  [k \in SourceSet |-> round2(JsMul(inst[k], JsDiv100(p[k])))]

\* ------------------------------------------------ current-capacity CSV
\* A text is the sequence of its lines (split at \r?\n), a line its characters.
TrimAll(cells) == [i \in 1..Len(cells) |-> Trim(cells[i])]

NonEmpty(l) == l # <<>>

\* a parser without the check that every source column is present: a missing
\* column reads as 0
parseCapacityCSV_NoColumnCheck(text) ==
  LET lines == SelectSeq(TrimAll(text), NonEmpty)
  IN IF Len(lines) < 2
     THEN [isNull |-> TRUE, out |-> ZeroRecord]
     ELSE
       LET headers == TrimAll(Split(lines[1], ","))
           values == TrimAll(Split(lines[2], ","))
           cols(k) == {i \in 1..Len(headers) : headers[i] = NameChars(k)}
           last(k) == CHOOSE i \in cols(k) : \A j \in cols(k) : j <= i
           cell(k) == IF cols(k) # {} /\ last(k) <= Len(values)
                      THEN values[last(k)] ELSE <<>>
       IN [isNull |-> FALSE, out |-> [k \in SourceSet |-> safeNum(Str(cell(k)))]]

\* variant A: parseCapacityCSV; isNull is the null return
parseCapacityCSV(text) ==
  LET lines == SelectSeq(TrimAll(text), NonEmpty)
  IN IF Len(lines) < 2
     THEN [isNull |-> TRUE, out |-> ZeroRecord]
     ELSE
       LET headers == TrimAll(Split(lines[1], ","))
           values == TrimAll(Split(lines[2], ","))
           cols(k) == {i \in 1..Len(headers) : headers[i] = NameChars(k)}
           last(k) == CHOOSE i \in cols(k) : \A j \in cols(k) : j <= i
           cell(k) == IF last(k) <= Len(values) THEN values[last(k)] ELSE <<>>
       IN IF \E k \in SourceSet : cols(k) = {}
          THEN [isNull |-> TRUE, out |-> ZeroRecord]
          ELSE [isNull |-> FALSE, out |-> [k \in SourceSet |-> safeNum(Str(cell(k)))]]

\* ------------------------------------------------------------- inputs
RECURSIVE JoinCells(_)
JoinCells(cells) ==
  IF cells = <<>> THEN <<>>
  ELSE IF Len(cells) = 1 THEN cells[1]
  ELSE cells[1] \o <<",">> \o JoinCells(Tail(cells))

SourceHeader == JoinCells([i \in 1..Len(SOURCES) |-> NameChars(SOURCES[i])])

\* the scenario of the specification: 50,10,8,5,20,15,2,3
CsvGood ==
  <<SourceHeader,
    JoinCells(<< <<"5", "0">>, <<"1", "0">>, <<"8">>, <<"5">>, <<"2", "0">>,
                 <<"1", "5">>, <<"2">>, <<"3">> >>)>>

\* blank lines, padded cells, a non-numeric cell and a short data row
CsvLoose ==
  <<<<" ">>,
    <<" ">> \o SourceHeader \o <<" ">>,
    <<>>,
    <<" ", "7", " ", ",", "x", ",", "2", ".", "5">>>>

\* no "Bio Power" column
CsvMissing ==
  <<JoinCells([i \in 1..(Len(SOURCES) - 1) |-> NameChars(SOURCES[i])]),
    JoinCells(<< <<"5", "0">>, <<"1", "0">>, <<"8">>, <<"5">>, <<"2", "0">>,
                 <<"1", "5">>, <<"2">> >>)>>

CsvOneLine == <<SourceHeader, <<" ">>>>

CsvEmpty == << <<>> >>

Response(kind, text) == [kind |-> kind, text |-> text]

NoResp == Response("none", <<>>)

CapacityResponses ==
  {Response("reject", <<>>), Response("status", CsvGood)}
    \cup {Response("ok", t) : t \in {CsvGood, CsvLoose, CsvMissing, CsvOneLine, CsvEmpty}}

\* ------------------------------------------------- historical ledger
Throw == [t |-> "throw", n |-> 0, s |-> <<>>]

\* variant B: parseLine of parseCSV
RECURSIVE parseLineFrom(_, _, _, _, _)
parseLineFrom(l, i, cur, q, out) ==
  IF i > Len(l) THEN Append(out, Trim(cur))
  ELSE IF l[i] = "\"" /\ i + 1 <= Len(l) /\ l[i + 1] = "\""
  THEN parseLineFrom(l, i + 2, Append(cur, "\""), q, out)
  ELSE IF l[i] = "\"" THEN parseLineFrom(l, i + 1, cur, ~q, out)
  ELSE IF l[i] = "," /\ ~q
  THEN parseLineFrom(l, i + 1, <<>>, q, Append(out, Trim(cur)))
  ELSE parseLineFrom(l, i + 1, Append(cur, l[i]), q, out)

parseLine(l) == parseLineFrom(l, 1, <<>>, FALSE, <<>>)

\* variant B: parseCSV; threw is the TypeError of parseLine(lines[0]) on no lines
parseCSV(text) ==
  LET lines == SelectSeq(text, NonEmpty)
  IN IF lines = <<>>
     THEN [threw |-> TRUE, header |-> <<>>, rows |-> <<>>]
     ELSE [threw |-> FALSE,
           header |-> parseLine(lines[1]),
           rows |-> [i \in 1..(Len(lines) - 1) |-> parseLine(lines[i + 1])]]

\* String(n).padStart(2, "0") for a number 0..99
Pad2(n) ==
  IF n < 10 THEN <<"0", Digits[n + 1]>>
  ELSE <<Digits[(n \div 10) + 1], Digits[(n % 10) + 1]>>

DigitRun(cs, lo, hi) == Len(cs) >= lo /\ Len(cs) <= hi /\ AllDigits(cs)

\* variant B: normalizeMonth; Null is the null return
normalizeMonth(input) ==
  IF input.t # "str" \/ input.s = <<>> THEN Null
  ELSE
    LET t == Trim(input.s)
        bySlash == Split(t, "/")
        byDash == Split(t, "-")
    IN IF Len(bySlash) = 2 /\ DigitRun(bySlash[1], 1, 2) /\ DigitRun(bySlash[2], 4, 4)
       THEN Str(Pad2(DigitsVal(bySlash[1])) \o <<"/">> \o bySlash[2])
       ELSE IF /\ Len(bySlash) = 3
               /\ DigitRun(bySlash[1], 1, 2)
               /\ DigitRun(bySlash[2], 1, 2)
               /\ DigitRun(bySlash[3], 4, 4)
       THEN Str(Pad2(DigitsVal(bySlash[2])) \o <<"/">> \o bySlash[3])
       ELSE IF /\ Len(byDash) = 3
               /\ DigitRun(byDash[1], 1, 2)
               /\ DigitRun(byDash[2], 1, 2)
               /\ DigitRun(byDash[3], 4, 4)
       THEN Str(Pad2(DigitsVal(byDash[2])) \o <<"/">> \o byDash[3])
       ELSE Null

\* x !== y on numbers and undefined
StrictNe(x, y) == x.t = "nan" \/ y.t = "nan" \/ x # y

\* variant B: compareMonth; Throw is the TypeError of split on undefined
compareMonth(a, b) ==
  IF a.t # "str" \/ b.t # "str" THEN Throw
  ELSE
    LET pa == Split(a.s, "/")
        pb == Split(b.s, "/")
        am == StringToNumber(pa[1])
        ay == IF Len(pa) >= 2 THEN StringToNumber(pa[2]) ELSE Undefined
        bm == StringToNumber(pb[1])
        by == IF Len(pb) >= 2 THEN StringToNumber(pb[2]) ELSE Undefined
    IN IF StrictNe(ay, by) THEN JsSub(ay, by) ELSE JsSub(am, bm)

\* String(n) of a whole number, "NaN" for NaN
RECURSIVE NatToString(_)
NatToString(i) ==
  IF i < 10 THEN <<Digits[i + 1]>>
  ELSE Append(NatToString(i \div 10), Digits[(i % 10) + 1])

NumberToString(v) ==
  IF v.t # "num" THEN <<"N", "a", "N">>
  ELSE IF v.n < 0 THEN <<"-">> \o NatToString((0 - v.n) \div Micro)
  ELSE NatToString(v.n \div Micro)

\* String.prototype.padStart(2, "0")
padStart2(cs) == IF Len(cs) < 2 THEN <<"0">> \o cs ELSE cs

\* the while (n--) loop of minusMonths on [mm, yy]
RECURSIVE minusLoop(_, _, _)
minusLoop(mm, yy, n) ==
  IF n = 0 THEN [mm |-> mm, yy |-> yy]
  ELSE
    LET m1 == JsSub(mm, Num(Micro))
    IN IF m1 = Zero
       THEN minusLoop(Num(12 * Micro), JsSub(yy, Num(Micro)), n - 1)
       ELSE minusLoop(m1, yy, n - 1)

\* variant B: minusMonths(m, n) for a string m and a whole number n >= 0
minusMonths(m, n) ==
  LET parts == Split(m, "/")
      mm0 == StringToNumber(parts[1])
      yy0 == IF Len(parts) >= 2 THEN StringToNumber(parts[2]) ELSE NaN
      r == minusLoop(mm0, yy0, n)
  IN padStart2(NumberToString(r.mm)) \o <<"/">> \o NumberToString(r.yy)

Positive(c) == c.t = "num" /\ c.n > 0

\* a ledger left in the order of the rows of the file
sortByMonth_FileOrder(data) == data

\* Array.prototype.sort with the comparator compareMonth (a stable sort)
RECURSIVE InsertByMonth(_, _)
InsertByMonth(e, sorted) ==
  IF sorted = <<>> THEN <<e>>
  ELSE
    LET lastE == sorted[Len(sorted)]
    IN IF Positive(compareMonth(Str(lastE.month), Str(e.month)))
       THEN Append(InsertByMonth(e, SubSeq(sorted, 1, Len(sorted) - 1)), lastE)
       ELSE Append(sorted, e)

RECURSIVE sortByMonth(_)
sortByMonth(data) ==
  IF data = <<>> THEN <<>>
  ELSE InsertByMonth(data[Len(data)], sortByMonth(SubSeq(data, 1, Len(data) - 1)))

\* r[i] for a 1-based column i; undefined beyond the row (0 is "no column")
CellAt(r, i) == IF i >= 1 /\ i <= Len(r) THEN Str(r[i]) ELSE Undefined

\* a search for the month column that compares the case too
MonthIndex_CaseSensitive(header) ==
  LET hits == {i \in 1..Len(header) : Trim(header[i]) = <<"M", "o", "n", "t", "h">>}
  IN IF hits = {} THEN 0 ELSE CHOOSE i \in hits : \A j \in hits : i <= j

\* header.findIndex(h => h.trim().toLowerCase() === "month"), 0 for -1
MonthIndex(header) ==
  LET hits == {i \in 1..Len(header) :
                 ToLowerCase(Trim(header[i])) = <<"m", "o", "n", "t", "h">>}
  IN IF hits = {} THEN 0 ELSE CHOOSE i \in hits : \A j \in hits : i <= j

\* header.indexOf(s), 0 for -1
IndexOfSource(header, k) ==
  LET hits == {i \in 1..Len(header) : header[i] = NameChars(k)}
  IN IF hits = {} THEN 0 ELSE CHOOSE i \in hits : \A j \in hits : i <= j

\* the loop over the rows: one entry per row whose month normalizes
RECURSIVE collectRows(_, _, _)
collectRows(header, rows, mIdx) ==
  IF rows = <<>> THEN <<>>
  ELSE
    LET r == Head(rows)
        mk == normalizeMonth(CellAt(r, mIdx))
        vals == [k \in SourceSet |->
                  IF IndexOfSource(header, k) >= 1
                  THEN safeNumB(CellAt(r, IndexOfSource(header, k)))
                  ELSE Zero]
        rest == collectRows(header, Tail(rows), mIdx)
    IN IF mk.t # "str" THEN rest
       ELSE <<[month |-> mk.s, values |-> vals]>> \o rest

\* variant B: the body of the history load effect, up to setHistory / catch.
\* failed: the catch ran (a rejected fetch, a status that is not ok, the
\* TypeError of parseCSV, no Month column); uncaught: a throw outside the try
\* (there is none: the whole body is inside it).
ingestHistory(resp) ==
  IF resp.kind # "ok" THEN [failed |-> TRUE, uncaught |-> FALSE, data |-> <<>>]
  ELSE
    LET csv == parseCSV(resp.text)
    IN IF csv.threw \/ MonthIndex(csv.header) = 0
       THEN [failed |-> TRUE, uncaught |-> FALSE, data |-> <<>>]
       ELSE [failed |-> FALSE,
             uncaught |-> FALSE,
             data |-> sortByMonth(collectRows(csv.header, csv.rows, MonthIndex(csv.header)))]

\* variant B: the start/end guard effect, run until start and end are stable
guardEffect(s, e) ==
  LET c == compareMonth(s, e)
  IN [threw |-> c.t = "throw", start |-> IF Positive(c) THEN e ELSE s]

NoErr == "null"

ErrNotLoaded == "capacity.csv not loaded"

\* ------------------------------------------------- historical inputs
cMonth == <<"M", "o", "n", "t", "h">>

\* the scenario of the specification: rows 01/2023, 31/12/2022, 13-01-2023
\* (and 01/2024), with Coal and Solar columns; 01/2023 totals 100, 01/2024 115
HistScenario ==
  <<JoinCells(<<cMonth, NameChars("Coal"), NameChars("Solar")>>),
    JoinCells(<< <<"0", "1", "/", "2", "0", "2", "3">>, <<"6", "0">>, <<"4", "0">> >>),
    JoinCells(<< <<"3", "1", "/", "1", "2", "/", "2", "0", "2", "2">>, <<"5", "5">>,
                 <<"4", "0">> >>),
    JoinCells(<< <<"1", "3", "-", "0", "1", "-", "2", "0", "2", "3">>, <<"6", "1">>,
                 <<"4", "0">> >>),
    JoinCells(<< <<"0", "1", "/", "2", "0", "2", "4">>, <<"7", "0">>, <<"4", "5">> >>)>>

\* a quoted upper-case month header, an unparseable month, a short row, a
\* row of blanks and a blank line
HistLoose ==
  <<JoinCells(<< <<"\"", " ", "M", "O", "N", "T", "H", " ", "\"">>, NameChars("Wind"),
                 NameChars("Coal") >>),
    JoinCells(<< <<"2", "/", "2", "0", "2", "4">>, <<"1">>, <<"2">> >>),
    JoinCells(<< <<"J", "a", "n", "-", "2", "0", "2", "3">>, <<"5">>, <<"5">> >>),
    <<>>,
    <<" ", " ">>,
    <<"1", "/", "2", "/", "2", "0", "2", "3">>>>

\* no "Month" column
HistNoMonth ==
  <<JoinCells(<< <<"D", "a", "t", "e">>, NameChars("Coal") >>),
    JoinCells(<< <<"0", "1", "/", "2", "0", "2", "3">>, <<"5">> >>)>>

HistHeaderOnly == <<JoinCells(<<cMonth, NameChars("Coal")>>)>>

HistEmpty == << <<>> >>

\* a source that shrinks: Coal 60 in 01/2023, 55.5 in 02/2023
HistDecline ==
  <<JoinCells(<<cMonth, NameChars("Coal")>>),
    JoinCells(<< <<"0", "1", "/", "2", "0", "2", "3">>, <<"6", "0">> >>),
    JoinCells(<< <<"0", "2", "/", "2", "0", "2", "3">>, <<"5", "5", ".", "5">> >>)>>

HistoryResponses ==
  {Response("reject", <<>>), Response("status", HistScenario)}
    \cup {Response("ok", t) :
            t \in {HistScenario, HistLoose, HistNoMonth, HistHeaderOnly, HistEmpty,
                   HistDecline}}

\* what the user types into an Installed Capacity field: 50, 0.01, abc, empty
InstalledTexts == {<<"5", "0">>, <<"0", ".", "0", "1">>, <<"a", "b", "c">>, <<>>}

\* what the user types into a PLF field: 60, 150, -5
PlfTexts == {<<"6", "0">>, <<"1", "5", "0">>, <<"-", "5">>}

\* the source whose fields the user edits
EditSources == {"Coal"}

\* what storage may hold before the first session
InitialInstalledItems ==
  {NoItem,
   BadItem,
   ObjItem("Solar" :> Num(20 * Micro)),
   ObjItem("Coal" :> Str(<<"a", "b", "c">>) @@ "Wind" :> Null
             @@ "Hydro" :> Str(<<" ", "7", " ">>))}

InitialPlfItems ==
  {NoItem,
   ScalarItem,
   ObjItem("Coal" :> Num(150 * Micro) @@ "Solar" :> Num((-5) * Micro)
             @@ "Wind" :> Str(<<"x">>))}

\* ---------------------------------------------------------------- state
NoFetch == [st |-> "none", resp |-> NoResp]

Pending == [st |-> "pending", resp |-> NoResp]

Done(resp) == [st |-> "done", resp |-> resp]

\* the component before its first mount
ComponentInit ==
  /\ variant = "none"
  /\ mounted = FALSE
  /\ installed = ZeroRecord
  /\ plf = ZeroRecord
  /\ rated = ZeroRecord
  /\ csvLoaded = TRUE
  /\ capFetch = NoFetch
  /\ history = <<>>
  /\ err = NoErr
  /\ histFetch = NoFetch
  /\ start = Str(<<>>)
  /\ end = Undefined
  /\ escaped = {}
  /\ \E i \in InitialInstalledItems, p \in InitialPlfItems :
       localStorage = (LS_INSTALLED :> i @@ LS_PLF :> p)
  /\ quotaExceeded = FALSE
  /\ sessions = 0

\* the values of the month-arithmetic variables while minusMonths is not called
monthVars == <<mKey, mN, mOut>>

Init ==
  /\ ComponentInit
  /\ mKey = <<>>
  /\ mN = 0
  /\ mOut = Undefined

\* ------------------------------------------------------------ variant A
\* a mount effect that starts the CSV fetch whatever storage holds
startsCsvFetch_Always(instLS) == TRUE

\* the mount effect starts the CSV fetch unless loadLS(LS_INSTALLED) returned
\* a record (it returns after the restore)
startsCsvFetch(instLS) == instLS.isNull

\* Math.min(100, Math.max(0, raw))
clampPlf(raw) ==
  IF raw.n < 0 THEN Zero ELSE IF raw.n > 100 * Micro THEN Num(100 * Micro) ELSE raw

\* Mount of variant A: first render with zero records, the three effects in
\* order (restore and fetch start; save installed; save plf), then the render
\* of the restored state and the save effects of the records that were set.
MountA ==
  /\ ~mounted
  /\ sessions < MaxSessions
  /\ LET plfLS == loadLS(LS_PLF)
         instLS == loadLS(LS_INSTALLED)
         plf1 == IF plfLS.isNull THEN ZeroRecord ELSE RestoreRecord(ZeroRecord, plfLS)
         inst1 == IF instLS.isNull THEN ZeroRecord ELSE RestoreRecord(ZeroRecord, instLS)
         s1 == saveLS(saveLS(localStorage, LS_INSTALLED, ZeroRecord), LS_PLF, ZeroRecord)
         s2 == IF instLS.isNull THEN s1 ELSE saveLS(s1, LS_INSTALLED, inst1)
         s3 == IF plfLS.isNull THEN s2 ELSE saveLS(s2, LS_PLF, plf1)
     IN /\ installed' = inst1
        /\ plf' = plf1
        /\ rated' = ratedBySource(inst1, plf1)
        /\ capFetch' = IF startsCsvFetch(instLS) THEN Pending ELSE NoFetch
        /\ localStorage' = s3
  /\ csvLoaded' = TRUE
  /\ variant' = "A"
  /\ mounted' = TRUE
  /\ sessions' = sessions + 1
  /\ UNCHANGED <<history, err, histFetch, start, end, escaped, quotaExceeded>>
  /\ UNCHANGED monthVars

\* onChange of an Installed Capacity input, and the save effect that follows
EditInstalledA(k, txt) ==
  /\ mounted /\ variant = "A"
  /\ LET next == [installed EXCEPT ![k] = safeNum(Str(txt))]
     IN /\ installed' = next
        /\ rated' = ratedBySource(next, plf)
        /\ localStorage' = saveLS(localStorage, LS_INSTALLED, next)
  /\ UNCHANGED <<variant, mounted, plf, csvLoaded, capFetch, history, err, histFetch,
                 start, end, escaped, quotaExceeded, sessions>>
  /\ UNCHANGED monthVars

\* onChange of a PLF input (clamped to [0,100]), and the save effect
EditPlfA(k, txt) ==
  /\ mounted /\ variant = "A"
  /\ LET next == [plf EXCEPT ![k] = clampPlf(safeNum(Str(txt)))]
     IN /\ plf' = next
        /\ rated' = ratedBySource(installed, next)
        /\ localStorage' = saveLS(localStorage, LS_PLF, next)
  /\ UNCHANGED <<variant, mounted, installed, csvLoaded, capFetch, history, err,
                 histFetch, start, end, escaped, quotaExceeded, sessions>>
  /\ UNCHANGED monthVars

\* the outcome of the fetch of /data/Capacity.csv: the parsed row, or the catch
capacityOutcome(resp) ==
  IF resp.kind = "ok" THEN parseCapacityCSV(resp.text)
  ELSE [isNull |-> TRUE, out |-> ZeroRecord]

\* completion of the CSV fetch of the mount effect
CapFetchComplete(resp) ==
  /\ mounted /\ variant = "A"
  /\ capFetch.st = "pending"
  /\ capFetch' = Done(resp)
  /\ LET parsed == capacityOutcome(resp)
     IN IF parsed.isNull
        THEN /\ csvLoaded' = FALSE
             /\ UNCHANGED <<installed, rated, localStorage>>
        ELSE /\ csvLoaded' = TRUE
             /\ installed' = parsed.out
             /\ rated' = ratedBySource(parsed.out, plf)
             /\ localStorage' = saveLS(localStorage, LS_INSTALLED, parsed.out)
  /\ UNCHANGED <<variant, mounted, plf, history, err, histFetch, start, end, escaped,
                 quotaExceeded, sessions>>
  /\ UNCHANGED monthVars

\* ------------------------------------------------------------ variant B
\* the exception of an unguarded localStorage.setItem
setItemEscapes == IF quotaExceeded THEN {"setItem"} ELSE {}

\* Mount of variant B: the initialisers read storage, start is "" and end is
\* undefined (the ledger is empty at the first render); then the effects in
\* order: save installed, save plf, start of the history fetch, range guard.
MountB ==
  /\ ~mounted
  /\ sessions < MaxSessions
  /\ LET inst0 == InitRecordB(LS_INSTALLED)
         plf0 == InitRecordB(LS_PLF)
         g == guardEffect(Str(<<>>), Undefined)
     IN /\ installed' = inst0
        /\ plf' = plf0
        /\ rated' = ratedOf(inst0, plf0)
        /\ localStorage' =
             setItemB(setItemB(localStorage, LS_INSTALLED, inst0), LS_PLF, plf0)
        /\ start' = g.start
        /\ end' = Undefined
        /\ escaped' = setItemEscapes \cup (IF g.threw THEN {"compareMonth"} ELSE {})
  /\ history' = <<>>
  /\ err' = NoErr
  /\ histFetch' = Pending
  /\ variant' = "B"
  /\ mounted' = TRUE
  /\ sessions' = sessions + 1
  /\ UNCHANGED <<csvLoaded, capFetch, quotaExceeded>>
  /\ UNCHANGED monthVars

\* onChange of an Installed Capacity input: +e.target.value, then the save effect
EditInstalledB(k, txt) ==
  /\ mounted /\ variant = "B"
  /\ LET next == [installed EXCEPT ![k] = ToNumber(Str(txt))]
     IN /\ installed' = next
        /\ rated' = ratedOf(next, plf)
        /\ localStorage' = setItemB(localStorage, LS_INSTALLED, next)
  /\ escaped' = escaped \cup setItemEscapes
  /\ UNCHANGED <<variant, mounted, plf, csvLoaded, capFetch, history, err, histFetch,
                 start, end, quotaExceeded, sessions>>
  /\ UNCHANGED monthVars

\* onChange of a PLF input: +e.target.value, then the save effect
EditPlfB(k, txt) ==
  /\ mounted /\ variant = "B"
  /\ LET next == [plf EXCEPT ![k] = ToNumber(Str(txt))]
     IN /\ plf' = next
        /\ rated' = ratedOf(installed, next)
        /\ localStorage' = setItemB(localStorage, LS_PLF, next)
  /\ escaped' = escaped \cup setItemEscapes
  /\ UNCHANGED <<variant, mounted, installed, csvLoaded, capFetch, history, err,
                 histFetch, start, end, quotaExceeded, sessions>>
  /\ UNCHANGED monthVars

\* completion of the history load effect
HistFetchComplete(resp) ==
  /\ mounted /\ variant = "B"
  /\ histFetch.st = "pending"
  /\ histFetch' = Done(resp)
  /\ LET r == ingestHistory(resp)
     IN /\ IF r.failed
           THEN err' = ErrNotLoaded /\ UNCHANGED history
           ELSE history' = r.data /\ UNCHANGED err
        /\ escaped' = escaped \cup (IF r.uncaught THEN {"ingest"} ELSE {})
  /\ UNCHANGED <<variant, mounted, installed, plf, rated, csvLoaded, capFetch, start,
                 end, localStorage, quotaExceeded, sessions>>
  /\ UNCHANGED monthVars

\* the options of the two selects
months == {history[i].month : i \in 1..Len(history)}

\* onChange of the start select, then the guard effect
SetStart(m) ==
  /\ mounted /\ variant = "B"
  /\ Str(m) # start
  /\ LET g == guardEffect(Str(m), end)
     IN /\ start' = g.start
        /\ escaped' = escaped \cup (IF g.threw THEN {"compareMonth"} ELSE {})
  /\ UNCHANGED <<variant, mounted, installed, plf, rated, csvLoaded, capFetch, history,
                 err, histFetch, end, localStorage, quotaExceeded, sessions>>
  /\ UNCHANGED monthVars

\* onChange of the end select, then the guard effect
SetEnd(m) ==
  /\ mounted /\ variant = "B"
  /\ Str(m) # end
  /\ LET g == guardEffect(start, Str(m))
     IN /\ start' = g.start
        /\ escaped' = escaped \cup (IF g.threw THEN {"compareMonth"} ELSE {})
  /\ end' = Str(m)
  /\ UNCHANGED <<variant, mounted, installed, plf, rated, csvLoaded, capFetch, history,
                 err, histFetch, localStorage, quotaExceeded, sessions>>
  /\ UNCHANGED monthVars

\* --------------------------------------------------- Net Addition row
\* a total that leaves Solar out
sumSources_NoSolar(obj) ==
  LET RECURSIVE upTo(_)
      upTo(i) == IF i = 0 THEN Zero
                 ELSE IF SOURCES[i] = "Solar" THEN upTo(i - 1)
                 ELSE JsAdd(upTo(i - 1), safeNumB(obj[SOURCES[i]]))
  IN upTo(Len(SOURCES))

\* variant B: sumSources, SOURCES.reduce((a, s) => a + safeNum(obj[s]), 0)
sumSources(obj) ==
  LET RECURSIVE upTo(_)
      upTo(i) == IF i = 0 THEN Zero
                 ELSE JsAdd(upTo(i - 1), safeNumB(obj[SOURCES[i]]))
  IN upTo(Len(SOURCES))

\* variant B: netColor
netColor(v) ==
  IF v.t = "num" /\ v.n > 0 THEN "text-emerald-600"
  ELSE IF v.t = "num" /\ v.n < 0 THEN "text-rose-600"
  ELSE "text-slate-700"

\* history.find((h) => h.month === key): found, and the first such entry
findRow(key) ==
  LET hits == {i \in 1..Len(history) : Str(history[i].month) = key}
  IN IF hits = {}
     THEN [found |-> FALSE, values |-> ZeroRecord]
     ELSE [found |-> TRUE,
           values |-> history[CHOOSE i \in hits : \A j \in hits : i <= j].values]

sRow == findRow(start)

eRow == findRow(end)

\* the text of a cell that has no data
Dash == "dash"

\* fmt2(n): the number rounded to 2 decimals, as shown
fmt2(n) == [text |-> "number", value |-> round2(n)]

NoData == [text |-> Dash, value |-> Zero]

\* the cell of source s in the Net Addition row: its colour class and content
netCell(s) ==
  LET v == IF sRow.found /\ eRow.found
           THEN JsSub(eRow.values[s], sRow.values[s]) ELSE Zero
  IN [color |-> netColor(v),
      shown |-> IF sRow.found /\ eRow.found THEN fmt2(v) ELSE NoData]

\* the Total cell of the Net Addition row
netTotal ==
  LET v == JsSub(sumSources(eRow.values), sumSources(sRow.values))
  IN [color |-> IF sRow.found /\ eRow.found THEN netColor(v) ELSE "",
      shown |-> IF sRow.found /\ eRow.found THEN fmt2(v) ELSE NoData]

\* ------------------------------------------------------ month arithmetic
\* month fields as they can stand in the historical CSV
MonthInputs ==
  {<<"0", "1", "/", "2", "0", "2", "3">>,
   <<"3", "/", "2", "0", "2", "4">>,
   <<"1", "2", "/", "2", "0", "2", "3">>,
   <<"3", "1", "/", "1", "2", "/", "2", "0", "2", "2">>,
   <<"1", "3", "-", "0", "1", "-", "2", "0", "2", "3">>,
   <<"0", "/", "2", "0", "2", "3">>,
   <<"1", "3", "/", "2", "0", "2", "3">>,
   <<"0", "1", "/", "0", "9", "9", "9">>}

\* the keys normalizeMonth returns for them
MonthKeys == {normalizeMonth(Str(i)).s : i \in MonthInputs}

\* the largest number of months subtracted
MaxMonthsBack == 13

\* minusMonths is called with a key of the normalizer and a whole number
InitMonths ==
  /\ ComponentInit
  /\ mKey \in MonthKeys
  /\ mN \in 0..MaxMonthsBack
  /\ mOut = Undefined

\* the call minusMonths(mKey, mN)
ApplyMinusMonths ==
  /\ mOut = Undefined
  /\ mKey # <<>>
  /\ mOut' = Str(minusMonths(mKey, mN))
  /\ UNCHANGED <<variant, mounted, installed, plf, rated, csvLoaded, capFetch, history,
                 err, histFetch, start, end, escaped, localStorage, quotaExceeded,
                 sessions, mKey, mN>>

MonthsNext == ApplyMinusMonths

\* month arithmetic on the keys of the normalizer
SpecMonths == InitMonths /\ [][MonthsNext]_vars

\* ---------------------------------------------------------- environment
\* the tab panel is left: the instance and its state are gone, the result of a
\* pending fetch is dropped; storage stays
Unmount ==
  /\ mounted
  /\ variant' = "none"
  /\ mounted' = FALSE
  /\ installed' = ZeroRecord
  /\ plf' = ZeroRecord
  /\ rated' = ZeroRecord
  /\ csvLoaded' = TRUE
  /\ capFetch' = NoFetch
  /\ history' = <<>>
  /\ err' = NoErr
  /\ histFetch' = NoFetch
  /\ start' = Str(<<>>)
  /\ end' = Undefined
  /\ escaped' = {}
  /\ UNCHANGED <<localStorage, quotaExceeded, sessions>>
  /\ UNCHANGED monthVars

\* the storage quota is reached
QuotaReached ==
  /\ ~quotaExceeded
  /\ quotaExceeded' = TRUE
  /\ UNCHANGED <<variant, mounted, installed, plf, rated, csvLoaded, capFetch, history,
                 err, histFetch, start, end, escaped, localStorage,
                 sessions>>
  /\ UNCHANGED monthVars

\* room is made in storage
QuotaFreed ==
  /\ quotaExceeded
  /\ quotaExceeded' = FALSE
  /\ UNCHANGED <<variant, mounted, installed, plf, rated, csvLoaded, capFetch, history,
                 err, histFetch, start, end, escaped, localStorage,
                 sessions>>
  /\ UNCHANGED monthVars

\* the snapshot store: mounts, record edits, the current-capacity fetch
StoreNext ==
  \/ MountA
  \/ MountB
  \/ \E k \in EditSources, txt \in InstalledTexts : EditInstalledA(k, txt)
  \/ \E k \in EditSources, txt \in PlfTexts : EditPlfA(k, txt)
  \/ \E resp \in CapacityResponses : CapFetchComplete(resp)
  \/ \E k \in EditSources, txt \in InstalledTexts : EditInstalledB(k, txt)
  \/ \E k \in EditSources, txt \in PlfTexts : EditPlfB(k, txt)
  \/ Unmount

\* the historical ledger: ingestion and the start/end selection
LedgerNext ==
  \/ \E resp \in HistoryResponses : HistFetchComplete(resp)
  \/ \E m \in months : SetStart(m)
  \/ \E m \in months : SetEnd(m)

Next == StoreNext \/ LedgerNext

\* the component with a storage that takes every write
Spec == Init /\ [][Next]_vars

\* the snapshot store with a storage whose quota may be reached and freed
QuotaNext == StoreNext \/ QuotaReached \/ QuotaFreed

SpecQuota == Init /\ [][QuotaNext]_vars

\* ====================================================================
\* Properties
\* ====================================================================

\* a step that mounts the component
MountStep == ~mounted /\ mounted'

\* a step in which the current-capacity fetch completes
CapDoneStep == capFetch.st = "pending" /\ capFetch'.st = "done"

\* the record of the scenario CSV: 50,10,8,5,20,15,2,3
ScenarioRecord ==
  ("Coal" :> Num(50 * Micro) @@ "Oil & Gas" :> Num(10 * Micro)
     @@ "Nuclear" :> Num(8 * Micro) @@ "Hydro" :> Num(5 * Micro)
     @@ "Solar" :> Num(20 * Micro) @@ "Wind" :> Num(15 * Micro)
     @@ "Small-Hydro" :> Num(2 * Micro) @@ "Bio Power" :> Num(3 * Micro))

\* -------------------------------------------------------------- C1
\* persisted Installed Capacity state: a JSON object stored under the key
C1_Persisted == localStorage[LS_INSTALLED].t = "obj"

\* C1: whenever persisted Installed Capacity state exists in storage at the
\* mount of variant A, the live record takes the persisted values (every
\* stored number under its source, 0 for a source that is not stored), no CSV
\* fetch is started, so no fetch result is ever applied in that session, and
\* the "CSV not loaded" signal is never raised in that session.
C1_PersistedWins ==
  /\ [][(MountStep /\ variant' = "A" /\ C1_Persisted) =>
          /\ \A k \in SourceSet :
               LET v == localStorage[LS_INSTALLED].v
               IN /\ (k \in DOMAIN v /\ v[k].t = "num") => installed'[k] = v[k]
                  /\ k \notin DOMAIN v => installed'[k] = Zero
          /\ capFetch'.st = "none"
          /\ csvLoaded' = TRUE]_vars
  /\ [][(mounted /\ mounted' /\ variant = "A" /\ capFetch.st = "none") =>
          (capFetch'.st = "none" /\ csvLoaded' = TRUE)]_vars
  /\ [](mounted /\ variant = "A" /\ capFetch.st = "none" => csvLoaded = TRUE)

\* C1 witness: a session of variant A restored from the stored {"Solar": 20},
\* later edited, with no fetch and the signal off
C1_Witness ==
  /\ mounted /\ variant = "A" /\ capFetch.st = "none" /\ csvLoaded
  /\ installed["Solar"] = Num(20 * Micro)
  /\ installed["Coal"] = Num(50 * Micro)
  /\ installed["Wind"] = Zero

\* -------------------------------------------------------------- C2
\* the lines of a text that are not blank, trimmed
C2_Lines(text) == SelectSeq([i \in 1..Len(text) |-> Trim(text[i])], NonEmpty)

C2_Cells(line) == [i \in 1..Len(Split(line, ",")) |-> Trim(Split(line, ",")[i])]

\* success as the claim states it: HTTP ok, at least 2 non-empty lines, all 8
\* source columns present
C2_Success(resp) ==
  /\ resp.kind = "ok"
  /\ Len(C2_Lines(resp.text)) >= 2
  /\ \A k \in SourceSet :
       \E i \in 1..Len(C2_Cells(C2_Lines(resp.text)[1])) :
         C2_Cells(C2_Lines(resp.text)[1])[i] = NameChars(k)

\* the data row read by column: the number of the cell under the source's
\* column, 0 for a missing or non-numeric cell
C2_Row(resp) ==
  LET head == C2_Cells(C2_Lines(resp.text)[1])
      row == C2_Cells(C2_Lines(resp.text)[2])
  IN [k \in SourceSet |->
       LET i == CHOOSE j \in 1..Len(head) : head[j] = NameChars(k)
           n == IF i <= Len(row) THEN StringToNumber(row[i]) ELSE Zero
       IN IF n.t = "num" THEN n ELSE Zero]

C3_Holds(item, rec) ==
  /\ item.t = "obj"
  /\ DOMAIN item.v = SourceSet
  /\ \A k \in SourceSet :
       item.v[k] = (IF rec[k].t = "nan" THEN Null ELSE rec[k])

\* C3: after every mutation of Installed Capacity or PLF (restore, CSV
\* install, user edit) the whole current record is written under the record's
\* key, in mutation order: whenever a handler has finished, storage under each
\* key equals the live record of the last mutation, never an older one
\* (storage accepting the writes).
C3_LastWriteWins ==
  mounted =>
    /\ C3_Holds(localStorage[LS_INSTALLED], installed)
    /\ C3_Holds(localStorage[LS_PLF], plf)

\* C3 witness: variant A after a restore of {"Solar": 20}, an edit of Coal
\* and an edit of the Coal PLF
C3_Witness ==
  /\ mounted /\ variant = "A"
  /\ installed["Solar"] = Num(20 * Micro)
  /\ installed["Coal"] = Num(Micro \div 100)
  /\ plf["Coal"] = Num(60 * Micro)
  /\ localStorage[LS_INSTALLED].t = "obj"
  /\ localStorage[LS_INSTALLED].v["Coal"] = Num(Micro \div 100)

\* -------------------------------------------------------------- C4
\* the item is what persisting a Capacity Record of finite non-negative
\* numbers for all 8 sources leaves in storage
C4_Persisted(item) ==
  /\ item.t = "obj"
  /\ DOMAIN item.v = SourceSet
  /\ \A k \in SourceSet : item.v[k].t = "num" /\ item.v[k].n >= 0
  /\ item = JSONstringify(item.v)

\* C4: round trip across sessions: a Capacity Record r (all 8 sources, finite
\* non-negative numbers) persisted under a storage key and restored at the
\* start of a fresh session (of either variant) is the live record, source by
\* source.
C4_RoundTrip ==
  [][MountStep =>
       /\ C4_Persisted(localStorage[LS_INSTALLED]) =>
            \A k \in SourceSet : installed'[k] = localStorage[LS_INSTALLED].v[k]
       /\ C4_Persisted(localStorage[LS_PLF]) =>
            \A k \in SourceSet : plf'[k] = localStorage[LS_PLF].v[k]]_vars

\* C4 witness: the second session, of variant A, holds the record the first
\* session installed from the CSV and persisted, and its PLF of 60 for Coal
C4_Witness ==
  /\ mounted /\ variant = "A" /\ sessions = 2
  /\ capFetch.st = "none"
  /\ installed = [ScenarioRecord EXCEPT !["Coal"] = Num(Micro \div 100)]
  /\ plf["Coal"] = Num(60 * Micro)

\* -------------------------------------------------------------- C5
\* round2(i * p / 100) with half-up rounding of the value scaled by 100, on
\* hundredths: i = ih/100, p = ph/100, so 100 * (i * p / 100) = ih * ph / 10^4
C5_Expected(i, p) ==
  LET x == ToNumber(i)
      y == ToNumber(p)
  IN IF x.t = "num" /\ y.t = "num"
     THEN Num((((x.n \div 10000) * (y.n \div 10000) + 5000) \div 10000) * 10000)
     ELSE NaN

\* C5: Rated Capacity is derived, never stored: in every state of a mounted
\* component rated[s] = round2(installed[s] * plf[s] / 100) for every source,
\* rounding half-up to 2 decimals (installed 50 and PLF 60 give 30.00).
C5_RatedDerived ==
  mounted =>
    /\ \A s \in SourceSet : rated[s] = C5_Expected(installed[s], plf[s])
    /\ DOMAIN localStorage = {LS_INSTALLED, LS_PLF}

\* C5 witness: installed Coal 50 and PLF Coal 60 give rated Coal 30.00
C5_Witness ==
  /\ mounted
  /\ installed["Coal"] = Num(50 * Micro)
  /\ plf["Coal"] = Num(60 * Micro)
  /\ rated["Coal"] = Num(30 * Micro)

\* -------------------------------------------------------------- C6
\* C6 as stated (refuted): no error is fatal: in every reachable state,
\* including the state at mount before the historical ledger has loaded, with
\* the ledger empty and the end month not yet defined, no operation
\* (initialisation, CSV ingestion, record edit, start/end range check) lets an
\* exception escape.
C6_NoEscape == escaped = {}

\* C6 witness of the failure: variant B just mounted, start "" and end
\* undefined, the range check of the guard effect has thrown
C6_Witness ==
  /\ mounted /\ variant = "B"
  /\ histFetch.st = "pending"
  /\ start = Str(<<>>) /\ end = Undefined
  /\ "compareMonth" \in escaped

\* -------------------------------------------------------------- C7
\* C7 as stated (refuted): storage write failures are swallowed: when a
\* persistence write fails (storage throws) no error propagates out of the
\* handler whose mutation triggered the write.
C7_WriteFailureSwallowed == "setItem" \notin escaped

\* C7 witness of the failure: variant B mounted while storage rejects writes;
\* the setItem of a save effect has thrown out of the effect
C7_Witness ==
  /\ mounted /\ variant = "B" /\ quotaExceeded
  /\ "setItem" \in escaped

\* -------------------------------------------------------------- C8
C8_WellFormed(rec) ==
  /\ DOMAIN rec = SourceSet
  /\ \A k \in SourceSet : rec[k].t = "num"

\* C8 as stated (refuted): in every reachable state, after any restores from
\* storage, CSV installs and user edits (also edits whose text is empty or not
\* numeric, and stored values that are not numbers), both live records hold
\* all 8 sources and every value is a finite number.
C8_RecordsWellFormed == mounted => C8_WellFormed(installed) /\ C8_WellFormed(plf)

\* C8 witness of the failure: variant B after the edit "abc" of Coal holds NaN
C8_Witness ==
  /\ mounted /\ variant = "B"
  /\ installed["Coal"] = NaN
  /\ localStorage[LS_INSTALLED].v["Coal"] = Null

\* -------------------------------------------------------------- C9
\* the header columns of a text with at least one non-empty line
C9_Header(text) == parseLine(SelectSeq(text, NonEmpty)[1])

\* the failures the claim lists: the fetch fails, the text has no lines, no
\* header column is "Month" (any case, trimmed)
C9_Failure(resp) ==
  \/ resp.kind # "ok"
  \/ SelectSeq(resp.text, NonEmpty) = <<>>
  \/ ~ \E i \in 1..Len(C9_Header(resp.text)) :
         ToLowerCase(Trim(C9_Header(resp.text)[i])) = <<"m", "o", "n", "t", "h">>

\* C9: when the ingestion of the historical CSV has run: if the fetch failed,
\* the text has no lines or no header column is "Month" (case-insensitive,
\* trimmed), the ledger is empty and the "not loaded" advisory is raised;
\* otherwise the advisory is not raised; and no exception escaped the
\* ingestion.
C9_IngestionFailure ==
  histFetch.st = "done" =>
    /\ IF C9_Failure(histFetch.resp)
       THEN history = <<>> /\ err = ErrNotLoaded
       ELSE err = NoErr
    /\ "ingest" \notin escaped

\* C9 witness: the CSV without a Month column was ingested
C9_Witness ==
  /\ histFetch = Done(Response("ok", HistNoMonth))
  /\ history = <<>>
  /\ err = ErrNotLoaded

\* ------------------------------------------------------------- C10
\* year and month number of a normalized month MM/YYYY
C10_Year(m) == DigitsVal(SubSeq(m, 4, 7))

C10_Month(m) == DigitsVal(SubSeq(m, 1, 2))

C10_Le(a, b) ==
  \/ C10_Year(a) < C10_Year(b)
  \/ C10_Year(a) = C10_Year(b) /\ C10_Month(a) <= C10_Month(b)

\* the data rows of a CSV that ingests
C10_Rows(text) ==
  LET lines == SelectSeq(text, NonEmpty)
  IN [i \in 1..(Len(lines) - 1) |-> parseLine(lines[i + 1])]

\* the first column of the header that is "Month"
C10_MonthColumn(hdr) ==
  CHOOSE i \in 1..Len(hdr) :
    /\ ToLowerCase(Trim(hdr[i])) = <<"m", "o", "n", "t", "h">>
    /\ \A j \in 1..(i - 1) : ToLowerCase(Trim(hdr[j])) # <<"m", "o", "n", "t", "h">>

\* the entry of a data row r whose month cell normalizes: the normalized
\* month and, per source, the number under the source's column (0 without one)
C10_Entry(hdr, mcol, r) ==
  [month |-> normalizeMonth(CellAt(r, mcol)).s,
   values |-> [k \in SourceSet |->
                IF \E i \in 1..Len(hdr) : hdr[i] = NameChars(k)
                THEN safeNumB(CellAt(r, IndexOfSource(hdr, k)))
                ELSE Zero]]

\* the number of times e occurs in the sequence q
C10_Count(q, e) == Cardinality({i \in 1..Len(q) : q[i] = e})

\* C10: after a successful ingestion the ledger holds exactly the data rows
\* whose month field normalizes, one entry per such row (a row that does not
\* normalize is dropped, rows of the same normalized month are all kept), in
\* ascending order of (year, month).
C10_LedgerSorted ==
  (histFetch.st = "done" /\ err = NoErr) =>
    LET text == histFetch.resp.text
        hdr == C9_Header(text)
        mcol == C10_MonthColumn(hdr)
        kept == SelectSeq(C10_Rows(text),
                  LAMBDA r : normalizeMonth(CellAt(r, mcol)).t = "str")
        expected == [i \in 1..Len(kept) |-> C10_Entry(hdr, mcol, kept[i])]
    IN /\ Len(history) = Len(kept)
       /\ \A i \in 1..Len(expected) :
            C10_Count(history, expected[i]) = C10_Count(expected, expected[i])
       /\ \A i \in 1..(Len(history) - 1) :
            C10_Le(history[i].month, history[i + 1].month)

\* C10 witness: the rows 01/2023, 31/12/2022, 13-01-2023, 01/2024 give the
\* ledger 12/2022, 01/2023, 01/2023, 01/2024 with both 01/2023 rows kept
C10_Witness ==
  /\ histFetch = Done(Response("ok", HistScenario))
  /\ [i \in 1..Len(history) |-> history[i].month] =
       << <<"1", "2", "/", "2", "0", "2", "2">>, <<"0", "1", "/", "2", "0", "2", "3">>,
          <<"0", "1", "/", "2", "0", "2", "3">>, <<"0", "1", "/", "2", "0", "2", "4">> >>
  /\ history[2].values["Coal"] = Num(60 * Micro)
  /\ history[3].values["Coal"] = Num(61 * Micro)

\* ------------------------------------------------------------- C11
\* the sum of the 8 values of a ledger entry, in millionths
C11_Sum(vals) ==
  vals["Coal"].n + vals["Oil & Gas"].n + vals["Nuclear"].n + vals["Hydro"].n
    + vals["Solar"].n + vals["Wind"].n + vals["Small-Hydro"].n + vals["Bio Power"].n

C11_Class(n) == IF n > 0 THEN "text-emerald-600"
                ELSE IF n < 0 THEN "text-rose-600" ELSE "text-slate-700"

\* the ledger entries with the key k
C11_Entries(k) == {i \in 1..Len(history) : Str(history[i].month) = k}

\* C11: Net Addition: when the start month and the end month both have a
\* ledger entry, the cell of each of the 8 sources shows
\* end.values[s] - start.values[s] and the total cell shows
\* sum(end.values) - sum(start.values), coloured positive / negative / zero by
\* the sign of the result (totals 100 and 115 give +15, positive); when either
\* month has no entry with exactly that key, every cell shows "no data".
C11_NetAddition ==
  (mounted /\ variant = "B") =>
    IF C11_Entries(start) # {} /\ C11_Entries(end) # {}
    THEN \E i \in C11_Entries(start), j \in C11_Entries(end) :
           LET sv == history[i].values
               ev == history[j].values
           IN /\ \A s \in SourceSet :
                   /\ netCell(s).shown = [text |-> "number",
                                          value |-> Num(ev[s].n - sv[s].n)]
                   /\ netCell(s).color = C11_Class(ev[s].n - sv[s].n)
              /\ netTotal.shown = [text |-> "number",
                                   value |-> Num(C11_Sum(ev) - C11_Sum(sv))]
              /\ netTotal.color = C11_Class(C11_Sum(ev) - C11_Sum(sv))
    ELSE /\ \A s \in SourceSet : netCell(s).shown.text = Dash
         /\ netTotal.shown.text = Dash

\* C11 witness: start 01/2023 (total 100) and end 01/2024 (total 115): the
\* total cell shows 15.00, positive; Coal shows 10.00
C11_Witness ==
  /\ mounted /\ variant = "B"
  /\ start = Str(<<"0", "1", "/", "2", "0", "2", "3">>)
  /\ end = Str(<<"0", "1", "/", "2", "0", "2", "4">>)
  /\ netTotal.shown = [text |-> "number", value |-> Num(15 * Micro)]
  /\ netTotal.color = "text-emerald-600"
  /\ netCell("Coal").shown.value = Num(10 * Micro)

\* C11 (negative case reached): Coal 60 at the start, 55.5 at the end: -4.50
C11_WitnessNegative ==
  /\ mounted /\ variant = "B"
  /\ netTotal.shown = [text |-> "number", value |-> Num(0 - 4500000)]
  /\ netTotal.color = "text-rose-600"

\* ------------------------------------------------------------- C12
\* month counter and year of a key MM/YYYY
C12_Month(k) == DigitsVal(SubSeq(k, 1, 2))

C12_Year(k) == DigitsVal(SubSeq(k, 4, 7))

\* the key MM/YYYY of a month counter and a year
C12_Key(mm, yy) ==
  Pad2(mm) \o <<"/">>
    \o <<Digits[(yy \div 1000) + 1], Digits[((yy \div 100) % 10) + 1],
         Digits[((yy \div 10) % 10) + 1], Digits[(yy % 10) + 1]>>

\* n decrements of the month counter, wrapping to 12 and decrementing the
\* year each time the counter drops below 1
RECURSIVE C12_Back(_, _, _)
C12_Back(mm, yy, n) ==
  IF n = 0 THEN C12_Key(mm, yy)
  ELSE IF mm - 1 < 1 THEN C12_Back(12, yy - 1, n - 1)
  ELSE C12_Back(mm - 1, yy, n - 1)

\* C12 as stated (refuted): for every key the normalizer can return and every
\* whole N >= 0, minusMonths(key, N) returns the key reached by decrementing
\* the month counter N times, wrapping to 12 and decrementing the year each
\* time the counter drops below 1; minusMonths(m, 0) is m and
\* minusMonths(m, 12) is the same month one year earlier.
C12_MonthSubtraction ==
  mOut # Undefined =>
    /\ mOut = Str(C12_Back(C12_Month(mKey), C12_Year(mKey), mN))
    /\ mN = 0 => mOut = Str(mKey)
    /\ mN = 12 => mOut = Str(C12_Key(C12_Month(mKey), C12_Year(mKey) - 1))

\* C12 witness of the failure: one month back from the key 00/2023, which the
\* normalizer returns for "0/2023", is "-1/2023"
C12_Witness ==
  /\ mKey = <<"0", "0", "/", "2", "0", "2", "3">>
  /\ mN = 1
  /\ mOut = Str(<<"-", "1", "/", "2", "0", "2", "3">>)

\* C12 on calendar keys: the statement holds for the keys whose month is
\* 01..12 and whose year has no leading zero
C12_CalendarKeys ==
  (/\ mOut # Undefined
   /\ C12_Month(mKey) \in 1..12
   /\ C12_Year(mKey) >= 1000) => C12_MonthSubtraction

\* ------------------------------------------------------------- C13
\* While the fetch of a session without persisted Installed Capacity is
\* pending, the record is all zeros except for what the user has entered: a
\* source that is not 0 holds a user edit.
C13_EditedWhilePending(k) == capFetch.st = "pending" /\ installed[k] # Zero

\* C13 as stated (refuted): a user edit of Installed Capacity made while the
\* CSV fetch is pending is not lost: after the fetch completes, successfully
\* or not, the edited source still holds the user's value in the live record
\* and in storage.
C13_EditSurvivesFetch ==
  [][(CapDoneStep /\ variant = "A") =>
       \A k \in SourceSet :
         C13_EditedWhilePending(k) =>
           /\ installed'[k] = installed[k]
           /\ localStorage'[LS_INSTALLED].t = "obj"
           /\ localStorage'[LS_INSTALLED].v[k] = installed[k]]_vars

\* C13 witness of the case: 0.01 entered for Coal while the fetch is pending,
\* held by the live record and by storage
C13_Witness ==
  /\ mounted /\ variant = "A"
  /\ capFetch.st = "pending"
  /\ installed = [ZeroRecord EXCEPT !["Coal"] = Num(Micro \div 100)]
  /\ localStorage[LS_INSTALLED].t = "obj"
  /\ localStorage[LS_INSTALLED].v["Coal"] = Num(Micro \div 100)

\* C13 on a failing fetch: the edit made while the fetch was pending stands,
\* in the live record and in storage
C13_EditSurvivesFailure ==
  [][(CapDoneStep /\ variant = "A" /\ csvLoaded' = FALSE) =>
       \A k \in SourceSet :
         C13_EditedWhilePending(k) =>
           /\ installed'[k] = installed[k]
           /\ localStorage'[LS_INSTALLED].t = "obj"
           /\ localStorage'[LS_INSTALLED].v[k] = installed[k]]_vars

\* ------------------------------------------------------------- C14
C14_InRange(v) == v.t = "num" /\ v.n >= 0 /\ v.n <= 100 * Micro

\* C14 as stated (refuted): in the clamping variant every PLF value of the
\* live record lies in [0,100] in every reachable state, after any startup
\* restores from the ratedCapacity_plf key (whatever finite numbers it holds)
\* and PLF edits.
C14_PlfInRange ==
  (mounted /\ variant = "A") => \A k \in SourceSet : C14_InRange(plf[k])

\* C14 witness of the failure: a session of the clamping variant that restored
\* the PLF record the other variant stored after the entry 150 for Coal
C14_Witness ==
  /\ mounted /\ variant = "A" /\ sessions = 2
  /\ plf = [ZeroRecord EXCEPT !["Coal"] = Num(150 * Micro)]

\* C14 on edits: a PLF edit of the clamping variant stores a value of [0,100]
\* under the edited source (below 0 gives 0, above 100 gives 100)
C14_EditsClamped ==
  [][(mounted /\ mounted' /\ variant = "A") =>
       \A k \in SourceSet : plf'[k] # plf[k] => C14_InRange(plf'[k])]_vars

\* ------------------------------------------------------------- C15
\* C15 as stated (refuted): storage is written only as a consequence of a
\* mutation of a record: the mount of a session that finds the
\* ratedCapacity_installed key absent leaves it absent, and so does the
\* failure of its CSV load, so that the next session again finds no persisted
\* Installed Capacity and attempts the CSV load.
C15_KeyStaysAbsent ==
  /\ [][(MountStep /\ variant' = "A" /\ localStorage[LS_INSTALLED].t = "none") =>
          localStorage'[LS_INSTALLED].t = "none"]_vars
  /\ [][(CapDoneStep /\ variant = "A" /\ csvLoaded' = FALSE) =>
          localStorage' = localStorage]_vars
  /\ [][(MountStep /\ variant' = "A" /\ localStorage[LS_INSTALLED].t = "none") =>
          capFetch'.st = "pending"]_vars

\* C15 witness of the failure: the second session finds the zeros the first
\* one wrote at its mount, starts no CSV load and shows no signal
C15_Witness ==
  /\ mounted /\ variant = "A" /\ sessions = 2
  /\ capFetch.st = "none"
  /\ csvLoaded = TRUE
  /\ installed = ZeroRecord
  /\ localStorage[LS_INSTALLED] = ObjItem(ZeroRecord)
  /\ localStorage[LS_PLF] = ObjItem(ZeroRecord)
====
